---- MODULE Spec2Model ----
(***************************************************************************)
(* Model of the online batch-hard triplet training of                      *)
(* src/models/cnn_siamese_online.py and of the label conversions of        *)
(* src/util.py.                                                            *)
(*                                                                         *)
(* Four specifications share the variables below:                          *)
(*   SpecMining : one batch of embeddings and labels goes through          *)
(*                _batch_hard (which calls _pairwise_distances and the     *)
(*                two mask builders);                                      *)
(*   Spec       : the generator's index bookkeeping: __init__, __len__,    *)
(*                __getitem__ and on_epoch_end;                            *)
(*   SpecTrain  : main's training run: the SIGINT handler, the loop of     *)
(*                fit_generator with its callbacks, the final save;        *)
(*   SpecLabels : index_to_one_hot followed by one_hot_to_index.           *)
(* Arrays keep numpy's 0-based indexing: an array of length n is a         *)
(* function with domain 0..n-1.  The Python list self.indices is a         *)
(* sequence whose k-th element (0-based) is indices[k+1].                  *)
(***************************************************************************)
EXTENDS Integers, Sequences, FiniteSets

\* ------------------------------------------------------------------ bounds
\* Largest batch handed to _batch_hard.
MaxBatch == 4
\* Largest dataset and largest configured batch size of the generator.
MaxExamples == 3
MaxBatchSize == 4

\* Embedding vectors the tower model may return.  All coordinates are small
\* integers, hence exactly representable in floating point.  The pool holds
\* 1-D and 2-D vectors; one batch uses vectors of one dimension only.
EmbeddingPool ==
    { <<0>>, <<1>>, <<5>>, <<6>>,
      <<0, 0>>, <<-1, 2>>, <<2, 1>> }

Dims == { Len(v) : v \in EmbeddingPool }

PoolOfDim(d) == { v \in EmbeddingPool : Len(v) = d }

\* Class indices of the examples.  The masks compare labels for equality
\* only, so two classes give every same/different pattern an anchor can see.
Labels == { 0, 1 }

\* ------------------------------------------------------------------- state
VARIABLES
    \* ---- one call of _batch_hard
    embeddings,        \* argument: array of this_batch_size vectors
    labels,            \* argument: array of this_batch_size class indices
    pairwise_dists,    \* local of _batch_hard
    anchor_inds,       \* returned
    positive_inds,     \* returned
    negative_inds,     \* returned
    mined,             \* TRUE once _batch_hard has returned
    \* ---- the generator object
    n_examples,        \* self.n_examples
    batch_size,        \* self.batch_size
    indices,           \* self.indices
    this_batch_size,   \* self.this_batch_size
    batch_index,       \* argument of the last __getitem__ call (-1: none yet)
    X_anchors,         \* dataset rows of the last returned anchor batch
    y_dummy,           \* dummy targets of the last returned batch
    epoch_batches,     \* anchor batches returned so far in this epoch
    n_batches,         \* value returned by the last __len__ call (-1: none yet)
    \* ---- the training run of main
    pc,                \* position of main: "fit", "after_fit", "done",
                       \* "crashed" (uncaught exception), "exited" (exit())
    loop,              \* position inside fit_generator
    epoch,             \* epochs finished so far
    steps_done,        \* batch steps finished in the current epoch
    stop_flag,         \* global stop_flag
    training_complete, \* global training_complete
    stop_training,     \* model.stop_training
    save_path,         \* TRUE iff args.save_weights_path is not None
    val_loss,          \* logs["val_loss"] of the current epoch, in thousandths
                       \* (-1: not in the logs)
    best_val_loss,     \* ModelCheckpoint.best (-1: np.Inf, nothing saved yet)
    epochs_since_last_save,  \* ModelCheckpoint.epochs_since_last_save
    checkpoints,       \* checkpoint files on disk
    weights_saved,     \* TRUE once main has saved the final weights
    \* ---- one label conversion round trip
    y_in,              \* label vector given to index_to_one_hot
    n_classes,         \* its n_classes argument
    one_hot,           \* array returned by index_to_one_hot
    y_out,             \* value returned by one_hot_to_index
    conv               \* 0: nothing converted, 1: encoded, 2: decoded back

genVars == << n_examples, batch_size, indices, batch_index,
              X_anchors, y_dummy, epoch_batches, n_batches >>

trainVars == << pc, loop, epoch, steps_done, stop_flag, training_complete,
                stop_training, save_path, val_loss, best_val_loss,
                epochs_since_last_save, checkpoints, weights_saved >>

labelVars == << y_in, n_classes, one_hot, y_out, conv >>

vars == << embeddings, labels, pairwise_dists, anchor_inds, positive_inds,
           negative_inds, mined, n_examples, batch_size, indices,
           this_batch_size, batch_index, X_anchors, y_dummy, epoch_batches,
           n_batches, trainVars, labelVars >>

\* The training run is not part of the specification.
TrainIdle ==
    /\ pc = "idle"
    /\ loop = "idle"
    /\ epoch = 0
    /\ steps_done = 0
    /\ stop_flag = FALSE
    /\ training_complete = FALSE
    /\ stop_training = FALSE
    /\ save_path = FALSE
    /\ val_loss = -1
    /\ best_val_loss = -1
    /\ epochs_since_last_save = 0
    /\ checkpoints = << >>
    /\ weights_saved = FALSE

\* The label conversions are not part of the specification.
LabelIdle ==
    /\ y_in = << >>
    /\ n_classes = 0
    /\ one_hot = << >>
    /\ y_out = << >>
    /\ conv = 0

\* --------------------------------------------------------- numpy primitives
RECURSIVE DotFrom(_, _, _)
DotFrom(x, y, k) ==
    IF k > Len(x) THEN 0 ELSE x[k] * y[k] + DotFrom(x, y, k + 1)

\* one entry of np.matmul(embeddings, embeddings.T)
Dot(x, y) == DotFrom(x, y, 1)

Maximum(a, b) == IF a >= b THEN a ELSE b

RECURSIVE AMaxScan(_, _, _)
AMaxScan(row, k, best) ==
    IF k \notin DOMAIN row THEN best
    ELSE AMaxScan(row, k + 1, IF row[k] > best THEN row[k] ELSE best)

\* np.amax over one row
AMax(row) == AMaxScan(row, 1, row[0])

RECURSIVE ArgMaxLastScan(_, _, _)
ArgMaxLastScan(row, k, best) ==
    IF k \notin DOMAIN row THEN best
    ELSE ArgMaxLastScan(row, k + 1, IF row[k] >= row[best] THEN k ELSE best)

\* an argmax that keeps the last index holding the maximum
ArgMaxLast(row) == ArgMaxLastScan(row, 1, 0)

RECURSIVE ArgMaxScan(_, _, _)
ArgMaxScan(row, k, best) ==
    IF k \notin DOMAIN row THEN best
    ELSE ArgMaxScan(row, k + 1, IF row[k] > row[best] THEN k ELSE best)

\* np.argmax over one row: the first index holding the maximum
ArgMax(row) == ArgMaxScan(row, 1, 0)

RECURSIVE ArgMinScan(_, _, _)
ArgMinScan(row, k, best) ==
    IF k \notin DOMAIN row THEN best
    ELSE ArgMinScan(row, k + 1, IF row[k] < row[best] THEN k ELSE best)

\* np.argmin over one row: the first index holding the minimum
ArgMin(row) == ArgMinScan(row, 1, 0)

\* _pairwise_distances without the final np.maximum(distances, 0)
PairwiseDistancesNoClamp(emb) ==
    LET dot_products == [i \in DOMAIN emb |-> [j \in DOMAIN emb |->
                            Dot(emb[i], emb[j])]]
        square_norms == [i \in DOMAIN emb |-> dot_products[i][i]]
    IN  [i \in DOMAIN emb |-> [j \in DOMAIN emb |->
            square_norms[j] - 2 * dot_products[i][j] + square_norms[j]]]

\* ------------------------------------------------------ _pairwise_distances
\* distances = expand_dims(square_norms, 0) - 2.0 * dot_products
\*             + expand_dims(square_norms, 0), then np.maximum(distances, 0).
\* expand_dims(square_norms, 0) has shape (1, N): broadcast over the rows it
\* contributes square_norms[j] to entry [i][j]; the code adds it twice.
PairwiseDistances(emb) ==
    LET dot_products == [i \in DOMAIN emb |-> [j \in DOMAIN emb |->
                            Dot(emb[i], emb[j])]]
        square_norms == [i \in DOMAIN emb |-> dot_products[i][i]]
        distances    == [i \in DOMAIN emb |-> [j \in DOMAIN emb |->
                            square_norms[j] - 2 * dot_products[i][j]
                            + square_norms[j]]]
    IN  [i \in DOMAIN emb |-> [j \in DOMAIN emb |->
            Maximum(distances[i][j], 0)]]

\* ---------------------------------------------------- _anchor_positive_mask
AnchorPositiveMask(lab) ==
    LET indices_equal     == [a \in DOMAIN lab |-> [p \in DOMAIN lab |-> a = p]]
        indices_not_equal == [a \in DOMAIN lab |-> [p \in DOMAIN lab |->
                                 ~ indices_equal[a][p]]]
        labels_equal      == [a \in DOMAIN lab |-> [p \in DOMAIN lab |->
                                 lab[p] = lab[a]]]
    IN  [a \in DOMAIN lab |-> [p \in DOMAIN lab |->
            indices_not_equal[a][p] /\ labels_equal[a][p]]]

\* ---------------------------------------------------- _anchor_negative_mask
AnchorNegativeMask(lab) ==
    LET labels_equal == [a \in DOMAIN lab |-> [n \in DOMAIN lab |->
                            lab[n] = lab[a]]]
    IN  [a \in DOMAIN lab |-> [n \in DOMAIN lab |-> ~ labels_equal[a][n]]]

\* a boolean mask entry used as a number (True is 1, False is 0)
AsNumber(b) == IF b THEN 1 ELSE 0

\* hardest positive taken under the negative mask
PositiveIndsNegativeMask(dists, lab) ==
    LET mask == AnchorNegativeMask(lab)
    IN  [a \in DOMAIN dists |->
            ArgMax([p \in DOMAIN dists |-> AsNumber(mask[a][p]) * dists[a][p]])]

\* hardest negative taken with argmax instead of argmin
NegativeIndsArgMax(dists, lab) ==
    LET mask     == AnchorNegativeMask(lab)
        max_dist == [a \in DOMAIN dists |-> AMax(dists[a])]
    IN  [a \in DOMAIN dists |->
            ArgMax([n \in DOMAIN dists |->
                dists[a][n] + max_dist[a] * (1 - AsNumber(mask[a][n]))])]

\* -------------------------------------------------------------- _batch_hard
\* positive_inds = argmax(mask_anchor_positive * pairwise_dists, axis=1)
PositiveInds(dists, lab) ==
    LET mask_anchor_positive  == AnchorPositiveMask(lab)
        anchor_positive_dists == [a \in DOMAIN dists |-> [p \in DOMAIN dists |->
            AsNumber(mask_anchor_positive[a][p]) * dists[a][p]]]
    IN  [a \in DOMAIN dists |-> ArgMax(anchor_positive_dists[a])]

\* negative_inds = argmin(pairwise_dists + max_dist * (1.0 - mask), axis=1)
NegativeInds(dists, lab) ==
    LET mask_anchor_negative  == AnchorNegativeMask(lab)
        max_dist              == [a \in DOMAIN dists |-> AMax(dists[a])]
        anchor_negative_dists == [a \in DOMAIN dists |-> [n \in DOMAIN dists |->
            dists[a][n]
            + max_dist[a] * (1 - AsNumber(mask_anchor_negative[a][n]))]]
    IN  [a \in DOMAIN dists |-> ArgMin(anchor_negative_dists[a])]

\* anchor_inds = range(self.this_batch_size)
AnchorInds(size) == [a \in 0 .. (size - 1) |-> a]

\* ------------------------------------------------- specification SpecMining
\* The generator part of the state is not used by this specification.
GenIdle ==
    /\ n_examples = 0
    /\ batch_size = 0
    /\ indices = << >>
    /\ batch_index = -1
    /\ X_anchors = << >>
    /\ y_dummy = << >>
    /\ epoch_batches = << >>
    /\ n_batches = -1

\* A batch arrives at _batch_hard: __getitem__ has set this_batch_size to the
\* batch length, tower_model.predict has returned one embedding per example
\* (any vectors of the pool, all of one dimension) and one_hot_to_index one
\* class index per example.
InitMining ==
    /\ this_batch_size \in 1 .. MaxBatch
    /\ \E d \in Dims :
          embeddings \in [0 .. (this_batch_size - 1) -> PoolOfDim(d)]
    /\ labels \in [0 .. (this_batch_size - 1) -> Labels]
    /\ pairwise_dists = << >>
    /\ anchor_inds = << >>
    /\ positive_inds = << >>
    /\ negative_inds = << >>
    /\ mined = FALSE
    /\ GenIdle
    /\ TrainIdle
    /\ LabelIdle

\* _batch_hard(embeddings, labels)
BatchHard ==
    /\ ~ mined
    /\ anchor_inds' = AnchorInds(this_batch_size)
    /\ pairwise_dists' = PairwiseDistances(embeddings)
    /\ positive_inds' = PositiveInds(pairwise_dists', labels)
    /\ negative_inds' = NegativeInds(pairwise_dists', labels)
    /\ mined' = TRUE
    /\ UNCHANGED << embeddings, labels, this_batch_size >>
    /\ UNCHANGED genVars
    /\ UNCHANGED << trainVars, labelVars >>

NextMining == BatchHard

SpecMining == InitMining /\ [][NextMining]_vars

\* ------------------------------------------------------ specification Spec
\* The generator object.  A dataset example (one row of X_<name>) is
\* represented by its row number 0 .. n_examples-1.

\* list(range(n))
Range(n) == [k \in 1 .. n |-> k - 1]

RECURSIVE Orderings(_)
\* every ordering of the positions in S, as a sequence
Orderings(S) ==
    IF S = {} THEN { << >> }
    ELSE UNION { { Append(o, k) : o \in Orderings(S \ {k}) } : k \in S }

\* a draw with replacement instead of a shuffle
ShuffleWithReplacement(s) == [DOMAIN s -> { s[k] : k \in DOMAIN s }]

\* random.shuffle(s): s is reordered in place, any order may come out
Shuffle(s) == { [k \in DOMAIN s |-> s[o[k]]] : o \in Orderings(DOMAIN s) }

\* floor division instead of np.ceil of the true division
GeneratorLenFloor(n, b) == n \div b

\* __len__: int(np.ceil(n_examples / batch_size)).  The true division gives
\* the whole part n \div b plus the fraction (n % b) / b; np.ceil rounds a
\* non-zero fraction up.  (For operands below 2^53 the floating-point
\* quotient is an integer exactly when the remainder is zero.)
GeneratorLen(n, b) ==
    LET whole    == n \div b
        fraction == n % b
    IN  IF fraction = 0 THEN whole ELSE whole + 1

\* Python slice s[lo:hi] of a list, 0 <= lo <= hi
Slice(s, lo, hi) ==
    LET stop == IF hi < Len(s) THEN hi ELSE Len(s)
    IN  IF lo >= stop THEN << >> ELSE SubSeq(s, lo + 1, stop)

\* a slice whose end is taken inclusive
BatchIndicesInclusive(idx, index, bs) ==
    Slice(idx, index * bs, (index + 1) * bs + 1)

\* self.indices[index * batch_size: (index + 1) * batch_size]
BatchIndices(idx, index, bs) == Slice(idx, index * bs, (index + 1) * bs)

\* X_batch: reading the dataset through a boolean mask that is True on the
\* rows of batch_indices yields those rows in ascending row order.
MaskedRows(batch_indices) ==
    LET rows == { batch_indices[k] : k \in DOMAIN batch_indices }
    IN  [r \in 0 .. (Cardinality(rows) - 1) |->
            CHOOSE e \in rows : Cardinality({ x \in rows : x < e }) = r]

\* X_batch[inds, :, :]
TakeRows(X_batch, inds) == [a \in DOMAIN inds |-> X_batch[inds[a]]]

MiningIdle ==
    /\ embeddings = << >>
    /\ labels = << >>
    /\ pairwise_dists = << >>
    /\ positive_inds = << >>
    /\ negative_inds = << >>
    /\ mined = FALSE

\* __init__: indices = list(range(n_examples)), then on_epoch_end().
\* this_batch_size does not exist until the first __getitem__ (shown as 0).
Init ==
    /\ n_examples \in 1 .. MaxExamples
    /\ batch_size \in 1 .. MaxBatchSize
    /\ indices \in Shuffle(Range(n_examples))
    /\ this_batch_size = 0
    /\ batch_index = -1
    /\ anchor_inds = << >>
    /\ X_anchors = << >>
    /\ y_dummy = << >>
    /\ epoch_batches = << >>
    /\ n_batches = -1
    /\ MiningIdle
    /\ TrainIdle
    /\ LabelIdle

\* __len__()
GetLen ==
    /\ n_batches' = GeneratorLen(n_examples, batch_size)
    /\ UNCHANGED << n_examples, batch_size, indices, this_batch_size,
                    batch_index, anchor_inds, X_anchors, y_dummy,
                    epoch_batches >>
    /\ UNCHANGED << embeddings, labels, pairwise_dists, positive_inds,
                    negative_inds, mined >>
    /\ UNCHANGED << trainVars, labelVars >>

\* __getitem__(index), called with 0 <= index < __len__().  The positives and
\* negatives of the returned batch depend on the tower model's predictions;
\* their selection is the subject of SpecMining and is not recorded here.
GetItem(index) ==
    /\ index \in 0 .. (GeneratorLen(n_examples, batch_size) - 1)
    /\ LET batch_indices == BatchIndices(indices, index, batch_size)
           size          == Len(batch_indices)
           X_batch       == MaskedRows(batch_indices)
       IN  /\ this_batch_size' = size
           /\ anchor_inds' = AnchorInds(size)
           /\ X_anchors' = TakeRows(X_batch, AnchorInds(size))
           /\ y_dummy' = [k \in 0 .. (size - 1) |-> 0]
           /\ epoch_batches' =
                 [i \in (DOMAIN epoch_batches) \cup {index} |->
                     IF i = index THEN TakeRows(X_batch, AnchorInds(size))
                     ELSE epoch_batches[i]]
    /\ batch_index' = index
    /\ UNCHANGED << n_examples, batch_size, indices, n_batches >>
    /\ UNCHANGED << embeddings, labels, pairwise_dists, positive_inds,
                    negative_inds, mined >>
    /\ UNCHANGED << trainVars, labelVars >>

\* on_epoch_end(): random.shuffle(self.indices); a new epoch starts
OnEpochEnd ==
    /\ indices' \in Shuffle(indices)
    /\ epoch_batches' = << >>
    /\ UNCHANGED << n_examples, batch_size, this_batch_size, batch_index,
                    anchor_inds, X_anchors, y_dummy, n_batches >>
    /\ UNCHANGED << embeddings, labels, pairwise_dists, positive_inds,
                    negative_inds, mined >>
    /\ UNCHANGED << trainVars, labelVars >>

Next ==
    \/ GetLen
    \/ \E index \in 0 .. (MaxExamples - 1) : GetItem(index)
    \/ OnEpochEnd

Spec == Init /\ [][Next]_vars

\* ------------------------------------------------- specification SpecTrain
\* main from setup_callbacks on: the SIGINT handler is installed, the
\* callbacks are built, fit_generator runs the training loop and main saves
\* the final weights.  The generators' batches are the subject of Spec and
\* SpecMining; here a batch step is a step of the loop.

\* EPOCHS
EPOCHS == 100

\* ModelCheckpoint(..., period=10)
period == 10

\* len(training_batch_generator): batch steps of one epoch
StepsPerEpoch == 2

\* Validation losses an epoch can end with, in thousandths.
ValLosses == { 1001, 1004, 2000 }

\* "{epoch:02d}": the decimal digits, padded with zeros to two places
RECURSIVE Digits(_)
Digits(n) == IF n < 10 THEN << n >> ELSE Append(Digits(n \div 10), n % 10)

Format02d(n) == IF n < 10 THEN << 0, n >> ELSE Digits(n)

\* "{val_loss:.2f}": rounded to hundredths
Format2f(thousandths) == (thousandths + 5) \div 10

\* save_path + "_class_model_{epoch:02d}_{val_loss:.2f}.hdf5", formatted by
\* ModelCheckpoint with epoch = epoch + 1
Filepath(ep, loss) == << Format02d(ep + 1), Format2f(loss) >>

\* a comparison that also accepts an equal loss
ImprovesOrEqual(current, b) == b = -1 \/ current <= b

\* save_best_only=True with monitor="val_loss": np.less(current, self.best),
\* self.best starting at np.Inf
Improves(current, b) == b = -1 \/ current < b

\* a callback that never asks the model to stop
OnBatchEndIgnoringFlag(flag, stopping) == stopping

\* TerminateOnFlag.on_batch_end: the value of model.stop_training afterwards
OnBatchEnd(flag, stopping) == IF flag THEN TRUE ELSE stopping

InitTrain ==
    /\ pc = "fit"
    /\ loop = "next_step"
    /\ epoch = 0
    /\ steps_done = 0
    /\ stop_flag = FALSE
    /\ training_complete = FALSE
    /\ stop_training = FALSE
    /\ save_path \in BOOLEAN
    /\ val_loss = -1
    /\ best_val_loss = -1
    /\ epochs_since_last_save = 0
    /\ checkpoints = << >>
    /\ weights_saved = FALSE
    /\ this_batch_size = 0
    /\ anchor_inds = << >>
    /\ GenIdle
    /\ MiningIdle
    /\ LabelIdle

\* The training run leaves the rest of the state alone.
TrainFrame ==
    /\ UNCHANGED << embeddings, labels, pairwise_dists, anchor_inds,
                    positive_inds, negative_inds, mined, this_batch_size >>
    /\ UNCHANGED genVars
    /\ UNCHANGED labelVars

Installed == pc \in { "fit", "after_fit" }

\* handler(signum, frame), run when a SIGINT is delivered to the process
Sigint ==
    /\ Installed
    /\ IF ~ training_complete
       THEN /\ stop_flag' = TRUE
            /\ pc' = pc
       ELSE /\ pc' = "exited"
            /\ stop_flag' = stop_flag
    /\ UNCHANGED << loop, epoch, steps_done, training_complete,
                    stop_training, save_path, val_loss, best_val_loss,
                    epochs_since_last_save, checkpoints, weights_saved >>
    /\ TrainFrame

\* fit_generator: the next batch is taken from the generator and
\* train_on_batch is called with it
StartStep ==
    /\ pc = "fit"
    /\ loop = "next_step"
    /\ loop' = "in_step"
    /\ UNCHANGED << pc, epoch, steps_done, stop_flag, training_complete,
                    stop_training, save_path, val_loss, best_val_loss,
                    epochs_since_last_save, checkpoints, weights_saved >>
    /\ TrainFrame

\* fit_generator: train_on_batch returns
FinishStep ==
    /\ pc = "fit"
    /\ loop = "in_step"
    /\ loop' = "batch_end"
    /\ UNCHANGED << pc, epoch, steps_done, stop_flag, training_complete,
                    stop_training, save_path, val_loss, best_val_loss,
                    epochs_since_last_save, checkpoints, weights_saved >>
    /\ TrainFrame

\* fit_generator: callbacks.on_batch_end runs TerminateOnFlag.on_batch_end;
\* after the last step of the epoch the validation data is evaluated,
\* otherwise a set stop_training leaves the epoch
BatchEnd ==
    /\ pc = "fit"
    /\ loop = "batch_end"
    /\ stop_training' = OnBatchEnd(stop_flag, stop_training)
    /\ steps_done' = steps_done + 1
    /\ loop' = IF steps_done' >= StepsPerEpoch THEN "validation"
               ELSE IF stop_training' THEN "epoch_end"
               ELSE "next_step"
    /\ UNCHANGED << pc, epoch, stop_flag, training_complete, save_path,
                    val_loss, best_val_loss, epochs_since_last_save,
                    checkpoints, weights_saved >>
    /\ TrainFrame

\* fit_generator: validation_data is evaluated, val_loss enters the logs
Validate ==
    /\ pc = "fit"
    /\ loop = "validation"
    /\ val_loss' \in ValLosses
    /\ loop' = "epoch_end"
    /\ UNCHANGED << pc, epoch, steps_done, stop_flag, training_complete,
                    stop_training, save_path, best_val_loss,
                    epochs_since_last_save, checkpoints, weights_saved >>
    /\ TrainFrame

\* fit_generator leaves the epoch: the next one starts, or the call returns
\* after EPOCHS epochs or with stop_training set
LeaveEpoch ==
    /\ epoch' = epoch + 1
    /\ IF epoch' >= EPOCHS \/ stop_training
       THEN /\ pc' = "after_fit"
            /\ loop' = "returned"
            /\ UNCHANGED << steps_done, val_loss >>
       ELSE /\ pc' = pc
            /\ loop' = "next_step"
            /\ steps_done' = 0
            /\ val_loss' = -1

\* fit_generator: callbacks.on_epoch_end.  With a save path the list holds
\* the ModelCheckpoint of setup_callbacks: every period-th epoch it formats
\* the file name from the epoch and the logs and saves the model if val_loss
\* improves on best.  An epoch left before validation has no val_loss in its
\* logs: the name cannot be formatted and, depending on the library, the save
\* is skipped or the error ends main.
EpochEnd ==
    /\ pc = "fit"
    /\ loop = "epoch_end"
    /\ IF ~ save_path
       THEN /\ LeaveEpoch
            /\ UNCHANGED << best_val_loss, epochs_since_last_save,
                            checkpoints >>
       ELSE IF epochs_since_last_save + 1 < period
       THEN /\ epochs_since_last_save' = epochs_since_last_save + 1
            /\ LeaveEpoch
            /\ UNCHANGED << best_val_loss, checkpoints >>
       ELSE /\ epochs_since_last_save' = 0
            /\ IF val_loss = -1
               THEN /\ \/ LeaveEpoch
                       \/ /\ pc' = "crashed"
                          /\ UNCHANGED << loop, epoch, steps_done, val_loss >>
                    /\ UNCHANGED << best_val_loss, checkpoints >>
               ELSE /\ LeaveEpoch
                    /\ IF Improves(val_loss, best_val_loss)
                       THEN /\ best_val_loss' = val_loss
                            /\ checkpoints' =
                                  LET name == Filepath(epoch, val_loss)
                                  IN  [f \in (DOMAIN checkpoints) \cup {name}
                                          |-> IF f = name
                                              THEN [epoch |-> epoch + 1,
                                                    val_loss |-> val_loss]
                                              ELSE checkpoints[f]]
                       ELSE UNCHANGED << best_val_loss, checkpoints >>
    /\ UNCHANGED << stop_flag, training_complete, stop_training, save_path,
                    weights_saved >>
    /\ TrainFrame

\* main after fit_generator: the final weights are saved when a save path
\* is given, then main returns
SaveFinal ==
    /\ pc = "after_fit"
    /\ weights_saved' = save_path
    /\ pc' = "done"
    /\ UNCHANGED << loop, epoch, steps_done, stop_flag, training_complete,
                    stop_training, save_path, val_loss, best_val_loss,
                    epochs_since_last_save, checkpoints >>
    /\ TrainFrame

NextTrain ==
    \/ Sigint
    \/ StartStep
    \/ FinishStep
    \/ BatchEnd
    \/ Validate
    \/ EpochEnd
    \/ SaveFinal

SpecTrain == InitTrain /\ [][NextTrain]_vars

\* ------------------------------------------------ specification SpecLabels
\* The label conversions of util.py.  An array is a record of its shape and
\* its data; the data of a 1-D array is a function on 0 .. n-1, the data of a
\* 2-D array a function from row numbers to such rows.

\* Largest n_classes tried
MaxClasses == 3

\* Largest label vector tried
MaxLabels == 3

\* np.nonzero(row)[0].size
NonzeroCount(row) == Cardinality({ k \in DOMAIN row : row[k] # 0 })

\* row number k of an array of n rows, Python indexing: -1 is the last row
PyRow(k, n) == IF k < 0 THEN k + n ELSE k

\* np.eye(n)
Eye(n) == [i \in 0 .. (n - 1) |-> [j \in 0 .. (n - 1) |->
              IF i = j THEN 1 ELSE 0]]

\* np.where(y == -1)[0]
MinusOne(data) == { k \in DOMAIN data : data[k] = -1 }

\* index_to_one_hot(y, n_classes) for a 1-D array y
IndexToOneHot(arr, n) ==
    IF arr.shape[1] = 0 THEN arr
    ELSE [shape |-> << arr.shape[1], n >>,
          data  |-> [k \in DOMAIN arr.data |->
                        IF k \in MinusOne(arr.data)
                        THEN [j \in 0 .. (n - 1) |-> -1]
                        ELSE Eye(n)[PyRow(arr.data[k], n)]]]

\* one index of one_hot_to_index
RowToIndex(row) == IF NonzeroCount(row) = 0 THEN -1 ELSE ArgMax(row)

\* one_hot_to_index(y): a single number for a 1-D array (or one without
\* columns), otherwise a list with one index per row
OneHotToIndex(arr) ==
    IF Len(arr.shape) = 1
    THEN [scalar |-> TRUE, value |-> RowToIndex(arr.data)]
    ELSE IF arr.shape[2] = 0
    THEN [scalar |-> TRUE, value |-> -1]
    ELSE [scalar |-> FALSE,
          value  |-> [k \in DOMAIN arr.data |-> RowToIndex(arr.data[k])]]

InitLabels ==
    /\ n_classes \in 1 .. MaxClasses
    /\ \E size \in 0 .. MaxLabels :
          \E data \in [0 .. (size - 1) -> -1 .. (n_classes - 1)] :
              y_in = [shape |-> << size >>, data |-> data]
    /\ one_hot = << >>
    /\ y_out = << >>
    /\ conv = 0
    /\ this_batch_size = 0
    /\ anchor_inds = << >>
    /\ GenIdle
    /\ MiningIdle
    /\ TrainIdle

LabelFrame ==
    /\ UNCHANGED << embeddings, labels, pairwise_dists, anchor_inds,
                    positive_inds, negative_inds, mined, this_batch_size >>
    /\ UNCHANGED genVars
    /\ UNCHANGED trainVars

\* one_hot = index_to_one_hot(y, n_classes)
Encode ==
    /\ conv = 0
    /\ one_hot' = IndexToOneHot(y_in, n_classes)
    /\ conv' = 1
    /\ UNCHANGED << y_in, n_classes, y_out >>
    /\ LabelFrame

\* one_hot_to_index(one_hot)
Decode ==
    /\ conv = 1
    /\ y_out' = OneHotToIndex(one_hot)
    /\ conv' = 2
    /\ UNCHANGED << y_in, n_classes, one_hot >>
    /\ LabelFrame

NextLabels ==
    \/ Encode
    \/ Decode

SpecLabels == InitLabels /\ [][NextLabels]_vars

\* ============================================================ claims C1..C7
\* Squared Euclidean distance sum_k (x[k] - y[k])^2, computed directly.
RECURSIVE SqDistFrom(_, _, _)
SqDistFrom(x, y, k) ==
    IF k > Len(x) THEN 0
    ELSE (x[k] - y[k]) * (x[k] - y[k]) + SqDistFrom(x, y, k + 1)

SquaredEuclidean(x, y) == SqDistFrom(x, y, 1)

BatchDomain == 0 .. (this_batch_size - 1)

\* the 1-D batch [0, 1, 5, 6] of the concrete scenario
ScenarioEmbeddings == [i \in 0 .. 3 |-> << <<0>>, <<1>>, <<5>>, <<6>> >>[i + 1]]

ScenarioDist ==
    [i \in 0 .. 3 |-> [j \in 0 .. 3 |->
        << << 0,  1, 25, 36>>,
           << 1,  0, 16, 25>>,
           <<25, 16,  0,  1>>,
           <<36, 25,  1,  0>> >>[i + 1][j + 1]]]

\* C1: the matrix returned by _pairwise_distances holds at [i][j] the squared
\* Euclidean distance between embedding i and embedding j; for the batch
\* [0, 1, 5, 6] it is [[0,1,25,36],[1,0,16,25],[25,16,0,1],[36,25,1,0]].
C1_SquaredDistances ==
    mined =>
        /\ \A i, j \in BatchDomain :
              pairwise_dists[i][j] = SquaredEuclidean(embeddings[i], embeddings[j])
        /\ embeddings = ScenarioEmbeddings => pairwise_dists = ScenarioDist

\* C2: the matrix returned by _pairwise_distances is symmetric.
C2_Symmetric ==
    mined =>
        \A i, j \in BatchDomain : pairwise_dists[i][j] = pairwise_dists[j][i]

\* C3: the matrix returned by _pairwise_distances has a zero diagonal and no
\* negative entry (negative intermediate values are clamped to zero).
C3_ZeroDiagonalNonNegative ==
    mined =>
        /\ \A i \in BatchDomain : pairwise_dists[i][i] = 0
        /\ \A i, j \in BatchDomain : pairwise_dists[i][j] >= 0

\* A batch whose unclamped value at some [i][j] is negative has been mined.
C3_Witness ==
    /\ mined
    /\ \E i, j \in BatchDomain :
          /\ 2 * Dot(embeddings[j], embeddings[j])
                - 2 * Dot(embeddings[i], embeddings[j]) < 0
          /\ pairwise_dists[i][j] = 0

\* at least 2 distinct classes in the batch, each with at least 2 members
TwoClassesOfTwo ==
    /\ \E a, b \in BatchDomain : labels[a] # labels[b]
    /\ \A a \in BatchDomain :
          \E p \in BatchDomain : p # a /\ labels[p] = labels[a]

\* C4: in a batch with at least 2 classes of at least 2 members each, the
\* positive selected for every anchor has the anchor's label and is not the
\* anchor itself, whatever the embeddings are.
C4_PositiveIsValid ==
    (mined /\ TwoClassesOfTwo) =>
        \A a \in BatchDomain :
            /\ labels[positive_inds[a]] = labels[a]
            /\ positive_inds[a] # a

\* C5: whenever the batch holds an example with a label different from the
\* anchor's, the negative selected for the anchor has a different label.
C5_NegativeIsValid ==
    mined =>
        \A a \in BatchDomain :
            (\E n \in BatchDomain : labels[n] # labels[a])
                => labels[negative_inds[a]] # labels[a]

Rows(batch) == { batch[a] : a \in DOMAIN batch }

\* C8: within one epoch the batch returned for index holds exactly the
\* examples of positions [index*batch_size, (index+1)*batch_size) of the
\* epoch permutation; every batch but the last has batch_size anchors, the
\* last has n_examples - (len-1)*batch_size, and once all indexes were asked
\* for, every example is an anchor in exactly one batch.
C8_BatchesPartitionEpoch ==
    LET len == GeneratorLen(n_examples, batch_size)
    IN  /\ \A index \in DOMAIN epoch_batches :
              LET batch == epoch_batches[index]
                  last  == IF (index + 1) * batch_size < n_examples
                           THEN (index + 1) * batch_size ELSE n_examples
              IN  /\ Rows(batch) =
                        { indices[k] : k \in (index * batch_size + 1) .. last }
                  /\ Cardinality(DOMAIN batch) =
                        IF index < len - 1 THEN batch_size
                        ELSE n_examples - (len - 1) * batch_size
        /\ DOMAIN epoch_batches = 0 .. (len - 1) =>
              \A e \in 0 .. (n_examples - 1) :
                  Cardinality({ pos \in UNION { { <<i, a>> :
                                      a \in DOMAIN epoch_batches[i] } :
                                      i \in DOMAIN epoch_batches } :
                                epoch_batches[pos[1]][pos[2]] = e }) = 1

\* All batches of an epoch with a shorter last batch were returned, from a
\* permutation that is not the identity.
C8_Witness ==
    LET len == GeneratorLen(n_examples, batch_size)
    IN  /\ len >= 2
        /\ n_examples % batch_size # 0
        /\ DOMAIN epoch_batches = 0 .. (len - 1)
        /\ indices # Range(n_examples)

\* C9: __len__ returns ceil(n_examples / batch_size), the least k with
\* k * batch_size >= n_examples; 11 examples with batch size 100 give 1 batch
\* and that batch has 11 anchors (a single batch holds all the examples).
C9_LenIsCeiling ==
    /\ n_batches # -1 =>
          /\ n_batches * batch_size >= n_examples
          /\ (n_batches - 1) * batch_size < n_examples
    /\ (n_batches = 1 /\ batch_index = 0) => this_batch_size = n_examples
    /\ GeneratorLen(11, 100) = 1
    /\ Len(BatchIndices(Range(11), 0, 100)) = 11

\* __len__ returned 1 for a batch size above the dataset size and the one
\* batch was fetched.
C9_Witness ==
    /\ n_batches = 1
    /\ batch_size > n_examples
    /\ n_examples > 1
    /\ batch_index = 0
    /\ this_batch_size = n_examples

IsPermutation(s, n) ==
    /\ Len(s) = n
    /\ \A e \in 0 .. (n - 1) : Cardinality({ k \in 1 .. Len(s) : s[k] = e }) = 1

\* C10: the index sequence is always a permutation of 0 .. n_examples-1;
\* __getitem__ never changes it and only on_epoch_end reorders it.
C10_IndicesStayPermutation ==
    /\ [] IsPermutation(indices, n_examples)
    /\ [][ /\ (\E index \in 0 .. (MaxExamples - 1) : GetItem(index))
                => indices' = indices
           /\ indices' # indices => OnEpochEnd ]_vars

\* A batch was fetched, then an epoch ended, and the order is not the
\* identity.
C10_Witness ==
    /\ batch_index >= 0
    /\ epoch_batches = << >>
    /\ n_examples >= 2
    /\ indices # Range(n_examples)

\* ========================================================= claims C13, C14
\* mask_anchor_positive * pairwise_dists at [a][p], written out
MaskedPositiveDist(a, p) ==
    IF p # a /\ labels[p] = labels[a] THEN pairwise_dists[a][p] ELSE 0

\* pairwise_dists + max_dist * (1 - mask_anchor_negative) at [a][n], written out
PenalisedNegativeDist(a, n) ==
    LET row_max == CHOOSE m \in { pairwise_dists[a][j] : j \in BatchDomain } :
                       \A j \in BatchDomain : pairwise_dists[a][j] <= m
    IN  IF labels[n] # labels[a] THEN pairwise_dists[a][n]
        ELSE pairwise_dists[a][n] + row_max

NoValidNegative(a) == \A n \in BatchDomain : labels[n] = labels[a]

NoValidPositive(a) == \A p \in BatchDomain : p # a => labels[p] # labels[a]

\* C13 as stated: an anchor without a valid negative gets as negative an index
\* that maximises its row of the distance matrix.
C13_NegativeIsRowMaximum ==
    mined =>
        \A a \in BatchDomain :
            NoValidNegative(a) =>
                \A j \in BatchDomain :
                    pairwise_dists[a][j] <= pairwise_dists[a][negative_inds[a]]

\* C13 amended: an anchor without a valid negative gets as negative the
\* first index that minimises its row of the distance matrix (an entry 0).
C13_NegativeIsRowMinimum ==
    mined =>
        \A a \in BatchDomain :
            NoValidNegative(a) =>
                /\ pairwise_dists[a][negative_inds[a]] = 0
                /\ \A j \in BatchDomain :
                      /\ pairwise_dists[a][negative_inds[a]] <= pairwise_dists[a][j]
                      /\ j < negative_inds[a] => pairwise_dists[a][j] > 0

\* A one-class batch was mined in which some anchor's row has a non-zero
\* entry, and that anchor got an entry 0.
C13_Witness ==
    /\ mined
    /\ this_batch_size >= 2
    /\ \E a \in BatchDomain :
          /\ NoValidNegative(a)
          /\ \E j \in BatchDomain : pairwise_dists[a][j] > 0
          /\ pairwise_dists[a][negative_inds[a]] = 0

\* C14: the selected positive is the smallest index holding the maximum of
\* the anchor's masked row, the selected negative the smallest index holding
\* the minimum of the anchor's penalised row; an anchor without a valid
\* positive gets positive index 0.
C14_TiesToLowestIndex ==
    mined =>
        \A a \in BatchDomain :
            /\ \A k \in BatchDomain :
                  /\ MaskedPositiveDist(a, k) <= MaskedPositiveDist(a, positive_inds[a])
                  /\ k < positive_inds[a] =>
                        MaskedPositiveDist(a, k) < MaskedPositiveDist(a, positive_inds[a])
            /\ \A k \in BatchDomain :
                  /\ PenalisedNegativeDist(a, k) >= PenalisedNegativeDist(a, negative_inds[a])
                  /\ k < negative_inds[a] =>
                        PenalisedNegativeDist(a, k) > PenalisedNegativeDist(a, negative_inds[a])
            /\ NoValidPositive(a) => positive_inds[a] = 0

\* Two valid positives of an anchor tie at a non-zero maximum and the lower
\* index was selected, and an anchor other than 0 without a valid positive
\* got index 0.
C14_Witness ==
    /\ mined
    /\ \E a, p, q \in BatchDomain :
          /\ p < q
          /\ MaskedPositiveDist(a, p) > 0
          /\ MaskedPositiveDist(a, p) = MaskedPositiveDist(a, q)
          /\ positive_inds[a] = p
    /\ \E a \in BatchDomain :
          a # 0 /\ NoValidPositive(a) /\ positive_inds[a] = 0

\* ================================================================ claim C11
\* A batch step of fit_generator is started by one step of the model and is
\* in flight while loop = "in_step".
StepStarts == loop # "in_step" /\ loop' = "in_step"

Files == DOMAIN checkpoints

\* Every checkpoint on disk was written at the end of a period-th epoch.
WrittenAtCadence ==
    \A f \in Files :
        /\ checkpoints[f].epoch >= period
        /\ checkpoints[f].epoch % period = 0

\* C12 as stated: with a save path, checkpoints are written only every 10th
\* epoch and only on an improved validation loss, so that after any sequence
\* of epochs only the checkpoint with the best validation loss is on disk.
C12_OnlyBestRetained ==
    /\ WrittenAtCadence
    /\ Cardinality(Files) <= 1
    /\ \A f \in Files : checkpoints[f].val_loss = best_val_loss

\* C12, amended: checkpoints are written only with a save path, only at the
\* end of every 10th epoch and only with a validation loss below that of
\* every checkpoint written before; each goes to a file of its own and no
\* file is removed or overwritten, so all of them stay on disk, the latest
\* one holding the lowest validation loss, which is ModelCheckpoint.best.
C12_CheckpointsAccumulate ==
    /\ [] /\ (~ save_path => Files = {})
          /\ WrittenAtCadence
          /\ \A f, g \in Files :
                checkpoints[f].epoch < checkpoints[g].epoch =>
                    checkpoints[g].val_loss < checkpoints[f].val_loss
          /\ \A f, g \in Files :
                checkpoints[f].epoch = checkpoints[g].epoch => f = g
          /\ (Files = {}) = (best_val_loss = -1)
          /\ \A f \in Files : best_val_loss <= checkpoints[f].val_loss
          /\ Files # {} =>
                \E f \in Files : checkpoints[f].val_loss = best_val_loss
    /\ [][ /\ \A f \in Files :
                 f \in DOMAIN checkpoints' /\ checkpoints'[f] = checkpoints[f]
           /\ checkpoints' # checkpoints =>
                 /\ EpochEnd
                 /\ val_loss < best_val_loss \/ best_val_loss = -1
                 /\ (epoch + 1) % period = 0
         ]_vars

\* Two checkpoints are on disk: one of epoch 10 and a better one of epoch 20.
C12_Witness ==
    /\ save_path
    /\ Cardinality(Files) >= 2
    /\ \E f, g \in Files :
          /\ checkpoints[f].epoch = period
          /\ checkpoints[g].epoch = 2 * period
          /\ checkpoints[g].val_loss < checkpoints[f].val_loss

\* ================================================================ claim C15
\* C15: once fit_generator has returned in main, a SIGINT makes the handler
\* end the process through exit() and stop_flag is not set; before that a
\* SIGINT never ends the process through the handler.
C15_ExitAfterTraining ==
    [][ /\ (pc = "after_fit" /\ Sigint) =>
              (pc' = "exited" /\ stop_flag' = stop_flag)
        /\ (pc = "fit" /\ Sigint) => pc' # "exited"
      ]_vars

\* ================================================================ claim C16
\* C16: for every n_classes >= 1 and every label vector y (the empty one
\* included) with entries in -1 .. n_classes-1, the value decoded from the
\* encoding of y is a list equal to y element for element; an unknown label
\* -1 comes back as -1.
C16_RoundTrip ==
    conv = 2 =>
        /\ ~ y_out.scalar
        /\ DOMAIN y_out.value = DOMAIN y_in.data
        /\ \A k \in DOMAIN y_in.data : y_out.value[k] = y_in.data[k]

====
